---- MODULE Spec2Model ----
(***************************************************************************)
(* WebSitemapScraper (src/src/my_packages/WebSitemapScraper.py).           *)
(*                                                                         *)
(* Strings are sequences of one-character strings, so that startswith,     *)
(* endswith, strip and split are computed and not assumed.  A DataFrame is *)
(* a record of its column labels (in order) and its rows (each a function  *)
(* from the column labels to a cell).  A dict is the sequence of its       *)
(* (key, value) items in insertion order.                                  *)
(***************************************************************************)
EXTENDS Integers, Sequences, FiniteSets, TLC

VARIABLES
    pc,               \* position of the program
    robots_txt,       \* the site: body served for {base_url}/robots.txt
    docs,             \* the site: <loc> texts of the document at each sitemap URL
    robots_lines,     \* collect_sitemaps: robots_content.split("\n")
    line_no,          \* collect_sitemaps: index of the next line of the for loop
    stack,            \* the active process_sitemap calls, innermost last
    sitemaps_frames,  \* self.sitemaps_frames
    log,              \* history: one entry per completed process_sitemap call
    robots_ok,        \* history: whether the robots.txt request succeeded
    data_frame,       \* process_links: the frame given, then the frame returned
    subdir_levels,    \* process_links: split_url of each row, in row order
    folder_exists,    \* export_to_csv: whether the target folder exists
    files,            \* export_to_csv: the files written, as a dict name -> frame
    export_pos,       \* export_to_csv: index of the next item of the for loop
    write_failed      \* history: keys whose to_csv call raised

walkVars == <<robots_txt, docs, robots_lines, line_no, stack, sitemaps_frames,
              log, robots_ok>>
linkVars == <<data_frame, subdir_levels>>
exportVars == <<folder_exists, files, export_pos, write_failed>>
vars == <<pc, walkVars, linkVars, exportVars>>

---------------------------------------------------------------------------
(* Bounds of the model *)

\* longest path (after the prefix) of a generated datacamp URL
MaxPath == 3
\* most rows of a frame given to process_links on its own
MaxRows == 2
\* most <loc> entries of the whole site
MaxLocs == 3
\* deepest nesting of process_sitemap calls that is followed
MaxDepth == 3
\* most requests that raise in one run
MaxFail == 1
\* most rows of a frame of a collection given to export_to_csv on its own
MaxExportRows == 1

---------------------------------------------------------------------------
(* Python str *)

Range(s) == {s[i] : i \in DOMAIN s}

\* None / NaN: a cell or a segment that holds no string
Null == <<"None">>

Slash == "/"

\* str.startswith
StartsWith(s, p) == Len(s) >= Len(p) /\ SubSeq(s, 1, Len(p)) = p

\* str.endswith
EndsWith(s, suffix) ==
    Len(s) >= Len(suffix) /\ SubSeq(s, Len(s) - Len(suffix) + 1, Len(s)) = suffix

\* s[n:]
DropFirst(s, n) == SubSeq(s, n + 1, Len(s))

RECURSIVE LStrip(_, _)
LStrip(s, chars) ==
    IF s # <<>> /\ Head(s) \in chars THEN LStrip(Tail(s), chars) ELSE s

RECURSIVE RStrip(_, _)
RStrip(s, chars) ==
    IF s # <<>> /\ s[Len(s)] \in chars
    THEN RStrip(SubSeq(s, 1, Len(s) - 1), chars)
    ELSE s

\* str.strip(chars)
Strip(s, chars) == RStrip(LStrip(s, chars), chars)

Whitespace == {" ", "\t", "\n", "\r"}

\* the element of a set of one: Only({e(x) : x \in {v}}) is e of the value of
\* v, v worked out once however often e uses it
Only(S) == CHOOSE r \in S : TRUE

\* the first index from which sep occurs in s at or after start, 0 if none
Find(s, sep, start) ==
    Only({IF hits = {} THEN 0 ELSE CHOOSE i \in hits : \A j \in hits : i <= j :
            hits \in {{i \in start..(Len(s) - Len(sep) + 1) :
                          SubSeq(s, i, i + Len(sep) - 1) = sep}}})

\* str.split(sep), sep a non-empty string: always at least one piece
RECURSIVE SplitFrom(_, _, _)
SplitFrom(s, sep, start) ==
    Only({IF hit = 0 THEN <<SubSeq(s, start, Len(s))>>
          ELSE <<SubSeq(s, start, hit - 1)>> \o SplitFrom(s, sep, hit + Len(sep)) :
            hit \in {Find(s, sep, start)}})

Split(s, sep) == SplitFrom(s, sep, 1)

\* sep.join(pieces)
RECURSIVE Join(_, _)
Join(pieces, sep) ==
    IF pieces = <<>> THEN <<>>
    ELSE IF Len(pieces) = 1 THEN pieces[1]
    ELSE pieces[1] \o sep \o Join(Tail(pieces), sep)

Max(a, b) == IF a >= b THEN a ELSE b

---------------------------------------------------------------------------
(* pandas DataFrame *)

ColLinks == [base |-> "Links", n |-> 0]

\* "subdir" + str(j)
ColSubdir(j) == [base |-> "subdir", n |-> j]

\* pd.DataFrame(links, columns=["Links"])
DataFrame(links) ==
    [columns |-> <<ColLinks>>,
     rows    |-> [i \in 1..Len(links) |-> [c \in {ColLinks} |-> links[i]]]]

\* a row widened to the labels in columns, missing cells null
Reindex(row, columns) ==
    [c \in Range(columns) |-> IF c \in DOMAIN row THEN row[c] ELSE Null]

\* df.loc[idx, cols] = vals : labels not yet in the frame become new columns
\* at the end, null in every other row
LocSet(df, idx, cols, vals) ==
    LET added   == SelectSeq(cols, LAMBDA c : c \notin Range(df.columns))
        columns == df.columns \o added
        given(c) == CHOOSE j \in DOMAIN cols : cols[j] = c
    IN  [columns |-> columns,
         rows    |-> [i \in DOMAIN df.rows |->
                        IF i = idx
                        THEN [c \in Range(columns) |->
                                IF c \in Range(cols) THEN vals[given(c)]
                                ELSE Reindex(df.rows[i], columns)[c]]
                        ELSE Reindex(df.rows[i], columns)]]

\* df[column] = None
SetColumn(df, column) ==
    [columns |-> IF column \in Range(df.columns) THEN df.columns
                 ELSE Append(df.columns, column),
     rows    |-> [i \in DOMAIN df.rows |->
                    [c \in Range(df.columns) \cup {column} |->
                        IF c = column THEN Null ELSE df.rows[i][c]]]]

---------------------------------------------------------------------------
(* process_links *)

url_prefix == <<"h","t","t","p","s",":","/","/","w","w","w",".","d","a","t","a",
                "c","a","m","p",".","c","o","m","/">>

split_url_nostrip(link) ==
    IF StartsWith(link, url_prefix)
    THEN Split(DropFirst(link, Len(url_prefix)), <<Slash>>)
    ELSE <<Null>>

split_url(link) ==
    IF StartsWith(link, url_prefix)
    THEN Split(Strip(DropFirst(link, Len(url_prefix)), {Slash}), <<Slash>>)
    ELSE <<Null>>

subdir_columns_from_zero(k) == [j \in 1..k |-> ColSubdir(j - 1)]

\* ["subdir" + str(j + 1) for j in range(k)]
subdir_columns(k) == [j \in 1..k |-> ColSubdir(j)]

\* the first loop, rows idx.. of the frame as it was on entry (iterrows reads
\* the Links of the frame it was started on)
RECURSIVE iterrows(_, _, _, _)
iterrows(df, given, idx, maximum_depth) ==
    IF idx > Len(given.rows) THEN [frame |-> df, maximum_depth |-> maximum_depth]
    ELSE Only({Only({iterrows(set, given, idx + 1, Max(maximum_depth, Len(levels))) :
                        set \in {LocSet(df, idx, subdir_columns(Len(levels)), levels)}}) :
                 levels \in {split_url(given.rows[idx][ColLinks])}})

\* the second loop, depth.. : a subdir column still missing is added, all null
RECURSIVE fill_columns(_, _, _)
fill_columns(df, depth, maximum_depth) ==
    IF depth >= maximum_depth THEN df
    ELSE fill_columns(IF ColSubdir(depth + 1) \notin Range(df.columns)
                      THEN SetColumn(df, ColSubdir(depth + 1)) ELSE df,
                      depth + 1, maximum_depth)

process_links(df) ==
    Only({fill_columns(first.frame, 0, first.maximum_depth) :
            first \in {iterrows(df, df, 1, 0)}})

\* split_url of every row, as the first loop computes them
row_levels(df) == [i \in DOMAIN df.rows |-> split_url(df.rows[i][ColLinks])]

---------------------------------------------------------------------------
(* Inputs of process_links on its own *)

PathChars == {"a", Slash}

\* every sequence over S of length at most n
RECURSIVE ListsUpTo(_, _)
ListsUpTo(S, n) ==
    IF n = 0 THEN {<<>>}
    ELSE LET shorter == ListsUpTo(S, n - 1)
         IN  shorter \cup {Append(l, x) : l \in shorter, x \in S}

PA == <<"h","t","t","p","s",":","/","/","e","x","a","m","p","l","e",".","c","o",
        "m","/","p","a","g","e","-","a">>

\* the prefix without its final slash: does not start with the prefix
PrefixNoSlash == SubSeq(url_prefix, 1, Len(url_prefix) - 1)

LinkInputs ==
    {url_prefix \o p : p \in ListsUpTo(PathChars, MaxPath)} \cup {PA, PrefixNoSlash}

---------------------------------------------------------------------------
(* Python dict, in insertion order *)

Keys(d) == {d[i].key : i \in DOMAIN d}

DictGet(d, k) == d[CHOOSE i \in DOMAIN d : d[i].key = k].value

\* d[k] = v
DictSet(d, k, v) ==
    IF k \in Keys(d)
    THEN [i \in DOMAIN d |-> IF d[i].key = k THEN [key |-> k, value |-> v] ELSE d[i]]
    ELSE Append(d, [key |-> k, value |-> v])

---------------------------------------------------------------------------
(* The site being scraped *)

IDX == <<"h","t","t","p","s",":","/","/","e","x","a","m","p","l","e",".","c","o",
         "m","/","s","i","t","e","m","a","p","_","i","n","d","e","x",".","x","m","l">>
S1 == <<"h","t","t","p","s",":","/","/","e","x","a","m","p","l","e",".","c","o",
        "m","/","s","i","t","e","m","a","p","1",".","x","m","l">>
\* a second sitemap whose last path segment is that of S1
S1b == <<"h","t","t","p","s",":","/","/","e","x","a","m","p","l","e",".","c","o",
         "m","/","a","/","s","i","t","e","m","a","p","1",".","x","m","l">>

SitemapUrls == {IDX, S1, S1b}
LocTexts == SitemapUrls \cup {PA}

SitemapTok == <<"S","i","t","e","m","a","p",":">>
ColonSpace == <<":"," ">>
DotXml == <<".","x","m","l">>
Newline == <<"\n">>
UserAgentLine == <<"U","s","e","r","-","a","g","e","n","t",":"," ","*">>

\* robots.txt bodies: no directive, one sitemap, two sitemaps after another
\* directive, two sitemaps in a file with CRLF line ends
RobotsInputs ==
    { UserAgentLine,
      SitemapTok \o <<" ">> \o IDX,
      UserAgentLine \o Newline \o SitemapTok \o <<" ">> \o IDX
                    \o Newline \o SitemapTok \o <<" ">> \o S1b,
      SitemapTok \o <<" ">> \o S1b \o <<"\r">> \o Newline
                 \o SitemapTok \o <<" ">> \o IDX \o <<"\r">> \o Newline }

\* the documents of the site: flat cut in three
DocsOf(flat, c1, c2) ==
    [u \in SitemapUrls |->
        IF u = IDX THEN SubSeq(flat, 1, c1)
        ELSE IF u = S1 THEN SubSeq(flat, c1 + 1, c2)
        ELSE SubSeq(flat, c2 + 1, Len(flat))]

\* the XML served for a sitemap: a <url> entry per loc text
RECURSIVE XmlBody(_)
XmlBody(locs) ==
    IF locs = <<>> THEN <<>>
    ELSE <<[tag |-> "loc", text |-> Head(locs)],
           [tag |-> "lastmod", text |-> <<"2","0","2","4">>]>> \o XmlBody(Tail(locs))

\* what requests.get(endpoint) finds: a body, or a RequestException
Response(ok, body) == [ok |-> ok, body |-> body]

---------------------------------------------------------------------------
(* WebSitemapScraper *)

retrieve_web_data_uncaught(response) ==
    IF response.ok THEN [raised |-> FALSE, text |-> response.body]
    ELSE [raised |-> TRUE, text |-> <<>>]

\* the body, or "" when the request raised
retrieve_web_data(response) ==
    IF response.ok THEN [raised |-> FALSE, text |-> response.body]
    ELSE [raised |-> FALSE, text |-> <<>>]

find_all_text(sitemap_xml) == [i \in DOMAIN sitemap_xml |-> sitemap_xml[i].text]

\* BeautifulSoup(sitemap_xml, "xml").find_all("loc"), each .text
find_all_loc(sitemap_xml) ==
    LET found == SelectSeq(sitemap_xml, LAMBDA e : e.tag = "loc")
    IN  [i \in DOMAIN found |-> found[i].text]

identifier_parent(url_of_sitemap) ==
    Only({parts[Max(1, Len(parts) - 1)] : parts \in {Split(url_of_sitemap, <<Slash>>)}})

\* url_of_sitemap.split("/")[-1]
identifier(url_of_sitemap) ==
    Only({parts[Len(parts)] : parts \in {Split(url_of_sitemap, <<Slash>>)}})

is_nested_xm(text) == EndsWith(text, <<".","x","m","l","/">>)

\* location.text.endswith(".xml")
is_nested(text) == EndsWith(text, DotXml)

links_append_leaf(links, text) ==
    IF is_nested(text) THEN links ELSE Append(links, text)

\* links.append(location.text)
links_append(links, text) == Append(links, text)

store_first(frames, key, dataframe) ==
    IF key \in Keys(frames) THEN frames ELSE DictSet(frames, key, dataframe)

store_only(frames, key, dataframe) == <<[key |-> key, value |-> dataframe]>>

\* self.sitemaps_frames[identifier] = dataframe
store(frames, key, dataframe) == DictSet(frames, key, dataframe)

\* the frame of a process_sitemap call that has fetched and parsed
Call(url, ok, text) ==
    [url |-> url, ok |-> ok, locs |-> find_all_loc(text), pos |-> 1, links |-> <<>>]

Top == stack[Len(stack)]
Pop == SubSeq(stack, 1, Len(stack) - 1)

\* the requests that raised so far
Failed ==
    Cardinality({i \in DOMAIN log : ~log[i].ok})
    + Cardinality({i \in DOMAIN stack : ~stack[i].ok})
    + (IF robots_ok THEN 0 ELSE 1)

\* what requests.get may find for a sitemap URL (an unknown URL: 404)
Answers(url) ==
    IF url \in DOMAIN docs
    THEN {Response(TRUE, XmlBody(docs[url]))}
         \cup (IF Failed < MaxFail THEN {Response(FALSE, <<>>)} ELSE {})
    ELSE {Response(FALSE, <<>>)}

\* process_sitemap(url) is entered on top of the calls in below
Enter(below, url) ==
    \E response \in Answers(url) :
        LET got == retrieve_web_data(response)
        IN  IF got.raised
            THEN /\ pc' = "raised"
                 /\ stack' = <<>>
            ELSE /\ pc' = pc
                 /\ stack' = Append(below, Call(url, response.ok, got.text))

WalkIdle ==
    /\ robots_txt = <<>>
    /\ docs = <<>>
    /\ robots_lines = <<>>
    /\ line_no = 1
    /\ stack = <<>>
    /\ log = <<>>
    /\ robots_ok = TRUE

LinksIdle == data_frame = DataFrame(<<>>) /\ subdir_levels = <<>>

ExportIdle ==
    /\ folder_exists = FALSE
    /\ files = <<>>
    /\ export_pos = 1
    /\ write_failed = {}

\* __init__ up to the call of collect_sitemaps, on some site
InitWalk ==
    /\ pc = "start"
    /\ robots_txt \in RobotsInputs
    /\ \E flat \in ListsUpTo(LocTexts, MaxLocs) :
         \E c1 \in 0..Len(flat) :
           \E c2 \in c1..Len(flat) : docs = DocsOf(flat, c1, c2)
    /\ robots_lines = <<>>
    /\ line_no = 1
    /\ stack = <<>>
    /\ sitemaps_frames = <<>>
    /\ log = <<>>
    /\ robots_ok = TRUE
    /\ LinksIdle
    /\ ExportIdle

\* collect_sitemaps: the robots.txt request and the split into lines
CollectSitemaps ==
    /\ pc = "start"
    /\ \E ok \in {TRUE} \cup (IF MaxFail > 0 THEN {FALSE} ELSE {}) :
         LET got == retrieve_web_data(Response(ok, IF ok THEN robots_txt ELSE <<>>))
         IN  /\ pc' = IF got.raised THEN "raised" ELSE "collect"
             /\ robots_lines' = Split(got.text, Newline)
             /\ robots_ok' = ok
    /\ line_no' = 1
    /\ UNCHANGED <<robots_txt, docs, stack, sitemaps_frames, log, linkVars, exportVars>>

\* collect_sitemaps: a line that is a Sitemap: directive; process_sitemap is
\* called on what follows the first ": " (an IndexError when nothing does)
SitemapLine ==
    /\ pc = "collect"
    /\ stack = <<>>
    /\ line_no <= Len(robots_lines)
    /\ StartsWith(robots_lines[line_no], SitemapTok)
    /\ \E parts \in {Split(robots_lines[line_no], ColonSpace)} :
         IF Len(parts) < 2
         THEN pc' = "raised" /\ stack' = <<>>
         ELSE \E sitemap_url \in {Strip(parts[2], Whitespace)} : Enter(<<>>, sitemap_url)
    /\ line_no' = line_no + 1
    /\ UNCHANGED <<robots_txt, docs, robots_lines, sitemaps_frames, log, robots_ok,
                   linkVars, exportVars>>

\* collect_sitemaps: any other line
OtherLine ==
    /\ pc = "collect"
    /\ stack = <<>>
    /\ line_no <= Len(robots_lines)
    /\ ~StartsWith(robots_lines[line_no], SitemapTok)
    /\ line_no' = line_no + 1
    /\ UNCHANGED <<pc, robots_txt, docs, robots_lines, stack, sitemaps_frames, log,
                   robots_ok, linkVars, exportVars>>

\* process_sitemap: a <loc> that is not a nested sitemap
LocLeaf ==
    /\ pc = "collect"
    /\ stack # <<>>
    /\ Top.pos <= Len(Top.locs)
    /\ ~is_nested(Top.locs[Top.pos])
    /\ stack' = Append(Pop, [Top EXCEPT !.links = links_append(@, Top.locs[Top.pos]),
                                        !.pos = @ + 1])
    /\ UNCHANGED <<pc, robots_txt, docs, robots_lines, line_no, sitemaps_frames, log,
                   robots_ok, linkVars, exportVars>>

\* process_sitemap: a <loc> that is a nested sitemap, and the call on it
LocNested ==
    /\ pc = "collect"
    /\ stack # <<>>
    /\ Top.pos <= Len(Top.locs)
    /\ is_nested(Top.locs[Top.pos])
    /\ Len(stack) < MaxDepth
    /\ Enter(Append(Pop, [Top EXCEPT !.links = links_append(@, Top.locs[Top.pos]),
                                     !.pos = @ + 1]),
             Top.locs[Top.pos])
    /\ UNCHANGED <<robots_txt, docs, robots_lines, line_no, sitemaps_frames, log,
                   robots_ok, linkVars, exportVars>>

\* process_sitemap: after the loop, the frame is built and stored; return
Store ==
    /\ pc = "collect"
    /\ stack # <<>>
    /\ Top.pos > Len(Top.locs)
    /\ sitemaps_frames' = store(sitemaps_frames, identifier(Top.url),
                                process_links(DataFrame(Top.links)))
    /\ log' = Append(log, [url |-> Top.url, ok |-> Top.ok])
    /\ stack' = Pop
    /\ UNCHANGED <<pc, robots_txt, docs, robots_lines, line_no, robots_ok,
                   linkVars, exportVars>>

\* collect_sitemaps returns
Finish ==
    /\ pc = "collect"
    /\ stack = <<>>
    /\ line_no > Len(robots_lines)
    /\ pc' = "done"
    /\ UNCHANGED <<walkVars, linkVars, exportVars>>

Next ==
    \/ CollectSitemaps
    \/ SitemapLine
    \/ OtherLine
    \/ LocLeaf
    \/ LocNested
    \/ Store
    \/ Finish

Spec == InitWalk /\ [][Next]_vars

\* the interpreter runs the next statement of the single thread
FairSpec == Spec /\ WF_vars(Next)

---------------------------------------------------------------------------
(* process_links on its own *)

InitLinks ==
    /\ pc = "links_given"
    /\ \E links \in ListsUpTo(LinkInputs, MaxRows) : data_frame = DataFrame(links)
    /\ subdir_levels = <<>>
    /\ WalkIdle
    /\ sitemaps_frames = <<>>
    /\ ExportIdle

ProcessLinks ==
    /\ pc = "links_given"
    /\ subdir_levels' = row_levels(data_frame)
    /\ data_frame' = process_links(data_frame)
    /\ pc' = "links_returned"
    /\ UNCHANGED <<walkVars, exportVars>>

NextLinks == ProcessLinks

SpecLinks == InitLinks /\ [][NextLinks]_vars

---------------------------------------------------------------------------
(* export_to_csv on its own *)

DotCsv == <<".","c","s","v">>

ExportKeys == {identifier(IDX), identifier(S1)}

ExportFrames ==
    {process_links(DataFrame(links)) :
        links \in ListsUpTo({PA, S1, url_prefix \o <<"a">>}, MaxExportRows)}

ExportItems == {[key |-> k, value |-> f] : k \in ExportKeys, f \in ExportFrames}

\* collections the walker can leave: distinct keys, frames from process_links
ExportInputs ==
    {<<>>}
    \cup {<<a>> : a \in ExportItems}
    \cup {ab \in ExportItems \X ExportItems : ab[1].key # ab[2].key}

InitExport ==
    /\ pc = "export_start"
    /\ sitemaps_frames \in ExportInputs
    /\ folder_exists \in BOOLEAN
    /\ files = <<>>
    /\ export_pos = 1
    /\ write_failed = {}
    /\ WalkIdle
    /\ LinksIdle

\* if not os.path.isdir(folder): os.mkdir(folder)
ExportStart ==
    /\ pc = "export_start"
    /\ folder_exists' = TRUE
    /\ export_pos' = 1
    /\ pc' = "export_loop"
    /\ UNCHANGED <<files, write_failed, walkVars, linkVars>>

\* one turn of the loop: frame.to_csv(file_path) writes the file
ExportWrite ==
    /\ pc = "export_loop"
    /\ export_pos <= Len(sitemaps_frames)
    /\ LET map_url == sitemaps_frames[export_pos].key
           frame == sitemaps_frames[export_pos].value
           file_name == map_url \o DotCsv
       IN  files' = DictSet(files, file_name, frame)
    /\ export_pos' = export_pos + 1
    /\ UNCHANGED <<pc, folder_exists, write_failed, walkVars, linkVars>>

\* one turn of the loop: frame.to_csv(file_path) raises (OSError); nothing in
\* export_to_csv catches it
ExportWriteFails ==
    /\ pc = "export_loop"
    /\ export_pos <= Len(sitemaps_frames)
    /\ write_failed' = write_failed \cup {sitemaps_frames[export_pos].key}
    /\ pc' = "raised"
    /\ UNCHANGED <<folder_exists, files, export_pos, walkVars, linkVars>>

\* the loop is over
ExportReturn ==
    /\ pc = "export_loop"
    /\ export_pos > Len(sitemaps_frames)
    /\ pc' = "exported"
    /\ UNCHANGED <<exportVars, walkVars, linkVars>>

NextExport ==
    \/ ExportStart
    \/ ExportWrite
    \/ ExportWriteFails
    \/ ExportReturn

SpecExport == InitExport /\ [][NextExport]_vars

---------------------------------------------------------------------------
(* What the properties speak of *)

\* the Links column of a frame, in row order
LinksColumn(df) == [i \in DOMAIN df.rows |-> df.rows[i][ColLinks]]

\* the <loc> entries of the document a completed call retrieved
Retrieved(e) == IF e.ok THEN docs[e.url] ELSE <<>>

\* the last path segment of a URL: what follows its last "/"
LastSegment(url) ==
    LET cut == CHOOSE i \in 0..Len(url) :
                  /\ i = 0 \/ url[i] = Slash
                  /\ \A j \in (i + 1)..Len(url) : url[j] # Slash
    IN  SubSeq(url, cut + 1, Len(url))

\* the completed calls on URLs whose last path segment is k
StoresUnder(k) == {i \in DOMAIN log : LastSegment(log[i].url) = k}

\* the last completed call that stored under k
LastStore(k) == log[CHOOSE i \in StoresUnder(k) : \A j \in StoresUnder(k) : j <= i]

Visited == {log[i].url : i \in DOMAIN log}

\* the sitemap URLs that robots.txt declares: "Sitemap: <url>" at a line start
Roots ==
    {u \in SitemapUrls :
        \E i \in 1..Len(robots_txt) :
            LET directive == SitemapTok \o <<" ">> \o u
                after == i + Len(directive)
            IN  /\ i = 1 \/ robots_txt[i - 1] = "\n"
                /\ StartsWith(DropFirst(robots_txt, i - 1), directive)
                /\ after > Len(robots_txt) \/ robots_txt[after] \in {"\n", "\r"}}

\* the <loc> entries of the document at u that end in ".xml"
Children(u) == {v \in Range(docs[u]) : EndsWith(v, DotXml)}

\* from, and what is reached from it through the documents of the URLs in open
RECURSIVE Closure(_, _)
Closure(from, open) ==
    LET more == from \cup UNION {Children(u) : u \in from \cap open}
    IN  IF more = from THEN from ELSE Closure(more, open)

\* the sitemap graph below robots.txt
StaticReach == Closure(Roots, SitemapUrls)

Acyclic == \A u \in StaticReach : u \notin Closure(Children(u), SitemapUrls)

\* URLs some request for which returned the document
Served == {log[i].url : i \in {j \in DOMAIN log : log[j].ok}}

\* no request has raised so far
AllOk ==
    /\ robots_ok
    /\ \A i \in DOMAIN log : log[i].ok
    /\ \A i \in DOMAIN stack : stack[i].ok

---------------------------------------------------------------------------
(* C1 *)

\* a call has completed and its table sits under the identifier of an index
\* document that lists a nested sitemap, already visited, and a page
C1_Witness ==
    \E i \in DOMAIN log :
        /\ log[i].ok
        /\ \E a, b \in DOMAIN docs[log[i].url] :
              /\ EndsWith(docs[log[i].url][a], DotXml)
              /\ ~EndsWith(docs[log[i].url][b], DotXml)
              /\ \E j \in 1..(i - 1) : log[j].url = docs[log[i].url][a]
        /\ LastStore(LastSegment(log[i].url)) = log[i]
        /\ Len(DictGet(sitemaps_frames, LastSegment(log[i].url)).rows) = 2

\* C1: whenever a process_sitemap call completes, the table it has stored
\* under the last path segment of its URL has as its Links column exactly the
\* <loc> entries of the document it retrieved, one row each, in document
\* order, those ending in ".xml" included.
C1_RowPerLoc ==
    [][Len(log') > Len(log) =>
        LET e == log'[Len(log')]
        IN  /\ LastSegment(e.url) \in Keys(sitemaps_frames')
            /\ LinksColumn(DictGet(sitemaps_frames', LastSegment(e.url)))
                 = Retrieved(e)]_vars

---------------------------------------------------------------------------
(* C2 *)

\* n slashes
Slashes(n) == [i \in 1..n |-> Slash]

\* core is rest without its leading and trailing slashes
IsStripped(core, rest) ==
    /\ core = <<>> \/ (core[1] # Slash /\ core[Len(core)] # Slash)
    /\ \E a, b \in 0..Len(rest) : rest = Slashes(a) \o core \o Slashes(b)

\* segs is what split_url owes for url
IsSegmentsOf(segs, url) ==
    IF StartsWith(url, url_prefix)
    THEN /\ Len(segs) >= 1
         /\ \A i \in DOMAIN segs : segs[i] # Null /\ Slash \notin Range(segs[i])
         /\ IsStripped(Join(segs, <<Slash>>), DropFirst(url, Len(url_prefix)))
         /\ url = url_prefix => segs = << <<>> >>
    ELSE segs = <<Null>>

\* split_url has run on the prefix itself and on a URL of another site
C2_Witness ==
    /\ pc = "links_returned"
    /\ \E i, j \in DOMAIN subdir_levels :
          /\ data_frame.rows[i][ColLinks] = url_prefix
          /\ subdir_levels[i] = << <<>> >>
          /\ ~StartsWith(data_frame.rows[j][ColLinks], url_prefix)
          /\ subdir_levels[j] = <<Null>>

\* C2: for a URL that starts with the prefix, split_url returns the pieces,
\* none holding a "/", that joined by "/" give the remainder after the prefix
\* without its leading and trailing "/" (the one piece "" when the URL is the
\* prefix); for any other URL it returns [None].
C2_Segments ==
    pc = "links_returned" =>
        \A i \in DOMAIN subdir_levels :
            IsSegmentsOf(subdir_levels[i], data_frame.rows[i][ColLinks])

---------------------------------------------------------------------------
(* C3 *)

\* the deepest row
Depth(levels) ==
    IF levels = <<>> THEN 0
    ELSE CHOOSE m \in {Len(levels[i]) : i \in DOMAIN levels} :
            \A i \in DOMAIN levels : Len(levels[i]) <= m

\* process_links has returned a frame whose rows differ in depth
C3_Witness ==
    /\ pc = "links_returned"
    /\ \E i, j \in DOMAIN subdir_levels :
          /\ Len(subdir_levels[i]) = 1
          /\ Len(subdir_levels[j]) = 2
          /\ data_frame.rows[i][ColSubdir(1)] # Null
          /\ data_frame.rows[i][ColSubdir(2)] = Null

\* C3: the frame process_links returns has the columns Links, subdir1, ...,
\* subdirM in this order, M the greatest number of segments of a row (0 with
\* no row); every row has a cell in every column, segment i in subdir_i, and
\* null in the subdir columns past its own segments.
C3_Rectangular ==
    pc = "links_returned" =>
        LET M == Depth(subdir_levels)
        IN  /\ data_frame.columns = <<ColLinks>> \o [j \in 1..M |-> ColSubdir(j)]
            /\ Len(data_frame.rows) = Len(subdir_levels)
            /\ \A i \in DOMAIN data_frame.rows :
                  /\ DOMAIN data_frame.rows[i] = Range(data_frame.columns)
                  /\ \A j \in 1..M :
                        data_frame.rows[i][ColSubdir(j)] =
                            IF j <= Len(subdir_levels[i])
                            THEN subdir_levels[i][j] ELSE Null

---------------------------------------------------------------------------
(* C4 *)

\* inside a call whose document was retrieved: an earlier entry was visited
\* and its request raised, its table has no row, and a later entry, another
\* URL, was visited after it
C4_Witness ==
    /\ stack # <<>>
    /\ Top.ok
    /\ \E a, b \in DOMAIN Top.locs :
          /\ a < b
          /\ b < Top.pos
          /\ Top.locs[a] # Top.locs[b]
          /\ \E i, j \in DOMAIN log :
                /\ i < j
                /\ log[i].url = Top.locs[a]
                /\ ~log[i].ok
                /\ log[j].url = Top.locs[b]
                /\ DictGet(sitemaps_frames, LastSegment(log[i].url)).rows = <<>>

\* C4: no exception leaves the walker; a call whose request raised stores a
\* table with no row under the last path segment of its URL; and the walk goes
\* on whatever raised: every ".xml" entry of a document that was retrieved is
\* visited before the call on that document completes, and when the walk is
\* over every sitemap that robots.txt declares was visited and every visited
\* URL has a table under its identifier.
C4_FetchFailure ==
    /\ [](pc # "raised")
    /\ [][(Len(log') > Len(log) /\ ~log'[Len(log')].ok) =>
            LET k == LastSegment(log'[Len(log')].url)
            IN  k \in Keys(sitemaps_frames')
                /\ DictGet(sitemaps_frames', k).rows = <<>>]_vars
    /\ [](\A i \in DOMAIN log :
            log[i].ok => \A v \in Children(log[i].url) :
                            \E j \in 1..(i - 1) : log[j].url = v)
    /\ [](pc = "done" =>
            /\ robots_ok => Roots \subseteq Visited
            /\ \A u \in Visited : LastSegment(u) \in Keys(sitemaps_frames))

---------------------------------------------------------------------------
(* C5 *)

\* the table process_links owes for the document a completed call retrieved
TableOf(e) == process_links(DataFrame(Retrieved(e)))

\* two URLs with the last path segment k were visited
Colliding(k) == \E i, j \in StoresUnder(k) : log[i].url # log[j].url

\* the walk is over, two URLs collided, and the table of the earlier one,
\* which differs, is gone
C5_Witness ==
    /\ pc = "done"
    /\ \E i \in DOMAIN log :
          LET k == LastSegment(log[i].url)
          IN  /\ log[i].url # LastStore(k).url
              /\ TableOf(log[i]) # DictGet(sitemaps_frames, k)

\* C5: when the walk is over, an identifier that two visited URLs share has
\* exactly one entry in sitemaps_frames, holding the table of the call that
\* completed last among those on URLs with this identifier; nothing is raised.
C5_LastWriteWins ==
    /\ pc # "raised"
    /\ pc = "done" =>
          \A k \in {LastSegment(u) : u \in Visited} :
              Colliding(k) =>
                  /\ Cardinality({i \in DOMAIN sitemaps_frames :
                                    sitemaps_frames[i].key = k}) = 1
                  /\ DictGet(sitemaps_frames, k) = TableOf(LastStore(k))

---------------------------------------------------------------------------
(* C6 *)

\* C6 as stated: no step changes or removes an entry of sitemaps_frames
C6_WriteOnce ==
    [][\A k \in Keys(sitemaps_frames) :
          /\ k \in Keys(sitemaps_frames')
          /\ DictGet(sitemaps_frames', k) = DictGet(sitemaps_frames, k)]_vars

\* an entry has been replaced by another table
C6_Witness ==
    \E i, j \in DOMAIN log :
        /\ i < j
        /\ LastSegment(log[i].url) = LastSegment(log[j].url)
        /\ TableOf(log[i]) # TableOf(log[j])
        /\ LastStore(LastSegment(log[j].url)) = log[j]
        /\ DictGet(sitemaps_frames, LastSegment(log[j].url)) = TableOf(log[j])

\* C6, amended: no step removes an entry of sitemaps_frames, and the only step
\* that changes the entry of an identifier (its table, its columns) is the
\* completion of a process_sitemap call on a URL with this identifier.
C6_OnlyOwnIdentifier ==
    [][\A k \in Keys(sitemaps_frames) :
          /\ k \in Keys(sitemaps_frames')
          /\ DictGet(sitemaps_frames', k) # DictGet(sitemaps_frames, k) =>
                /\ Len(log') = Len(log) + 1
                /\ LastSegment(log'[Len(log')].url) = k]_vars

---------------------------------------------------------------------------
(* C7 *)

\* A and B list each other
Cycle(A, B) == B \in Children(A) /\ A \in Children(B)

---------------------------------------------------------------------------
(* C9 *)

KeyIndex == <<"s","i","t","e","m","a","p","_","i","n","d","e","x",".","x","m","l">>
KeySitemap1 == <<"s","i","t","e","m","a","p","1",".","x","m","l">>

\* the site of the scenario
Scenario ==
    /\ robots_txt = SitemapTok \o <<" ">> \o IDX
    /\ docs[IDX] = <<S1, PA>>

\* C9 as stated: the table of the index has one row
C9_OneRow ==
    (Scenario /\ AllOk /\ pc = "done") =>
        /\ Keys(sitemaps_frames) = {KeyIndex, KeySitemap1}
        /\ Len(sitemaps_frames) = 2
        /\ Len(DictGet(sitemaps_frames, KeyIndex).rows) = 1
        /\ LinksColumn(DictGet(sitemaps_frames, KeySitemap1)) = docs[S1]

\* the walk over the site of the scenario is over, sitemap1.xml listing a page
C9_Witness ==
    /\ Scenario
    /\ AllOk
    /\ pc = "done"
    /\ docs[S1] = <<PA>>

\* C9, amended: in the scenario the walker leaves exactly two tables, keyed
\* sitemap_index.xml and sitemap1.xml; the table of sitemap_index.xml has two
\* rows, sitemap1.xml then page-a, and the table of sitemap1.xml has the
\* <loc> entries of sitemap1.xml.
C9_TwoRows ==
    (Scenario /\ AllOk /\ pc = "done") =>
        /\ Keys(sitemaps_frames) = {KeyIndex, KeySitemap1}
        /\ Len(sitemaps_frames) = 2
        /\ LinksColumn(DictGet(sitemaps_frames, KeyIndex)) = <<S1, PA>>
        /\ LinksColumn(DictGet(sitemaps_frames, KeySitemap1)) = docs[S1]

---------------------------------------------------------------------------
(* C10 *)

\* the identifiers of a set of URLs
Identifiers(urls) == {LastSegment(u) : u \in urls}

\* what is reached from robots.txt through the documents that were retrieved
ServedReach == IF robots_ok THEN Closure(Roots, Served) ELSE {}

\* C10 as stated: the keys are the identifiers of all of the graph below
\* robots.txt, whichever requests raised
C10_StaticKeys ==
    /\ Acyclic => <>(pc = "done")
    /\ [](pc = "done" /\ Acyclic =>
            Keys(sitemaps_frames) =
                Identifiers(IF robots_ok THEN StaticReach ELSE {}))

\* the walk over an acyclic site is over; the request for a document that
\* lists a nested sitemap raised, and that sitemap was never visited
C10_Witness ==
    /\ pc = "done"
    /\ Acyclic
    /\ \E i \in DOMAIN log :
          /\ ~log[i].ok
          /\ \E v \in Children(log[i].url) :
                v \notin Visited /\ LastSegment(v) \notin Keys(sitemaps_frames)

\* C10, amended: on an acyclic sitemap graph collect_sitemaps terminates, and
\* then the keys of sitemaps_frames are the identifiers of the URLs reached
\* from the Sitemap: lines of robots.txt through the ".xml" entries of the
\* documents that were retrieved (a document whose request raised gives its
\* own identifier and no entry); none when the robots.txt request raised.
C10_Terminates ==
    /\ Acyclic => <>(pc = "done")
    /\ [](pc = "done" /\ Acyclic =>
            Keys(sitemaps_frames) = Identifiers(ServedReach))

---------------------------------------------------------------------------
(* C8 *)

\* C8 as stated: when export_to_csv is over, every entry whose own write did
\* not raise has its file {identifier}.csv
C8_OthersWritten ==
    pc \in {"exported", "raised"} =>
        \A k \in Keys(sitemaps_frames) \ write_failed :
            k \o DotCsv \in Keys(files)

====
